---- MODULE Spec2Model ----
(***************************************************************************)
(* Multi-provider AI chat gateway (src/src/core/ai-manager.js).            *)
(* State: the per-provider key lists and current key indices, the shared   *)
(* limiter (queue + running jobs) and, per chat() call, the position of    *)
(* the async function between its awaits.  Each action runs a chat() call  *)
(* from one await to the next, as the JavaScript event loop does.          *)
(* The module also holds the sliding-window RateLimiter and the            *)
(* ExponentialBackoff of src/src/utils/rate-limiter.js and the DM handler  *)
(* that calls the gateway, each with a specification of its own.           *)
(***************************************************************************)
EXTENDS Integers, Sequences, FiniteSets, TLC

\* ---------------------------------------------------------------- bounds
MaxKeys == 2             \* keys per provider are drawn from 0..MaxKeys
MaxRetriesOpt == 2       \* options.maxRetries is unset or in 1..MaxRetriesOpt
LiveMaxKeys == 1         \* keys per provider in the termination and limiter checks
LongRetries == 8         \* options.maxRetries of the long retry runs
MaxMessages == 3         \* messages of one chat() call given to an adapter
MaxUnread == 2           \* unread messages one run of the DM handler finds
MaxMaxCalls == 2         \* RateLimiter: maxCalls is drawn from 1..MaxMaxCalls
MaxPeriodMs == 2         \* RateLimiter: periodMs is drawn from 1..MaxPeriodMs
MaxBackoffArg == 3       \* ExponentialBackoff: initialDelay and factor are in 1..MaxBackoffArg
MaxWaits == 7            \* ExponentialBackoff: wait() calls between two reset() calls

\* ------------------------------------------------------ program constants
DefaultMaxRetries == 3   \* options.maxRetries || 3
BackoffBaseMs == 1000    \* sleep(1000 * Math.pow(2, attempt))
MaxConcurrent == 5       \* Bottleneck maxConcurrent
MinTimeMs == 200         \* Bottleneck minTime
InitialDelayMs == 1000   \* ExponentialBackoff: default initialDelay
MaxDelayMs == 60000      \* ExponentialBackoff: default maxDelay
DefaultFactor == 2       \* ExponentialBackoff: default factor

Providers == {"sentient", "openai", "anthropic"}
Priority == <<"sentient", "openai", "anthropic">>
\* one more caller than the limiter has slots
Callers == 1..(MaxConcurrent + 1)
\* the caller of the specifications with one chat() call at a time
SeqCallers == {1}
\* the callers of the specification with overlapping chat() calls
ConcCallers == {1, 2}

\* What one adapter call (the job given to limiter.schedule) can end with:
\* a response, or an SDK error carrying an HTTP status.  (An error without
\* a status, such as a timeout or a malformed response, takes the same path
\* through the catch block as s400 and s500: no rotation.)
Statuses == {"s400", "s401", "s403", "s429", "s500"}
Outcomes == {"ok"} \cup Statuses

VARIABLES
  keys,             \* provider -> number of configured keys (= clients)
  idx,              \* provider -> current key index
  defaultProvider,  \* set by the constructor, "none" when it threw
  queue,            \* limiter: jobs submitted and not yet dispatched (FIFO)
  running,          \* limiter: jobs dispatched and not yet completed
  elapsed,          \* limiter: ms since the last dispatch, as far as it reads them
  live,             \* the callers that issue chat() calls
  env,              \* what the callers pass and what the adapters answer
  call,             \* caller -> state of its chat() call
  probe,            \* the last direct call of a rotate method: input and result
  avail,            \* what getAvailableProviders() returned: first and latest call
  wire,             \* Anthropic adapter: the messages given and the request built
  rl,               \* the RateLimiter instance and its throttle() callers
  bo,               \* the ExponentialBackoff instance and its user
  dm                \* the DM handler: the unread messages and its position

\* the components outside the gateway
utilVars == <<wire, rl, bo, dm>>

vars == <<keys, idx, defaultProvider, queue, running, elapsed, live, env, call, probe,
          avail, utilVars>>

\* ------------------------------------------------------------ constructor
\* (variant: openai is the default when nothing is configured)
determineDefaultProviderLenient(ks) ==
  IF ks["sentient"] > 0 THEN "sentient"
  ELSE IF ks["openai"] > 0 THEN "openai"
  ELSE IF ks["anthropic"] > 0 THEN "anthropic"
  ELSE "openai"

\* (variant: openai is preferred to sentient)
determineDefaultProviderOpenAIFirst(ks) ==
  IF ks["openai"] > 0 THEN "openai"
  ELSE IF ks["sentient"] > 0 THEN "sentient"
  ELSE IF ks["anthropic"] > 0 THEN "anthropic"
  ELSE "none"

\* "none" stands for the Error the constructor throws
determineDefaultProvider(ks) ==
  IF ks["sentient"] > 0 THEN "sentient"
  ELSE IF ks["openai"] > 0 THEN "openai"
  ELSE IF ks["anthropic"] > 0 THEN "anthropic"
  ELSE "none"

IdleCall ==
  [pc |-> "idle", provider |-> "none", maxRetries |-> 0, attempt |-> 0,
   fb |-> FALSE, fbPos |-> 0, log |-> <<>>,
   result |-> [kind |-> "none", p |-> "none", k |-> 0]]

\* every options.provider and options.maxRetries a caller may pass, every
\* outcome an adapter call may have
FullEnv ==
  [provs |-> Providers \cup {"unset"}, retries |-> 0..MaxRetriesOpt, outs |-> Outcomes]

NoProbe == [p |-> "none", before |-> 0, after |-> 0]

\* the other components before anything is constructed or called
NoWire == [messages |-> <<>>, sent |-> FALSE, system |-> "", array |-> <<>>]
NoLimiter == [maxCalls |-> 0, periodMs |-> 0, calls |-> <<>>]
NoBackoff == [initialDelay |-> 0, maxDelay |-> 0, factor |-> 0]
NoHandler == [pc |-> "off"]

UtilsUnused ==
  /\ wire = NoWire
  /\ rl = NoLimiter
  /\ bo = NoBackoff
  /\ dm = NoHandler

Construct(liveSet, maxK, e) ==
  /\ keys \in [Providers -> 0..maxK]
  /\ defaultProvider = determineDefaultProvider(keys)
  /\ idx = [p \in Providers |-> 0]
  /\ queue = <<>>
  /\ running = {}
  /\ elapsed = MinTimeMs
  /\ live = liveSet
  /\ env = e
  /\ call = [c \in Callers |-> IdleCall]
  /\ probe = NoProbe
  /\ avail = <<>>
  /\ UtilsUnused

Init == Construct(SeqCallers, MaxKeys, FullEnv)

LiveInit == Construct(SeqCallers, LiveMaxKeys, FullEnv)

\* Two overlapping chat() calls on the default provider, with up to two
\* attempts; the adapter answers or fails with a 429.
ConcEnv == [provs |-> {"unset"}, retries |-> {1, 2}, outs |-> {"ok", "s429"}]

ConcInit == Construct(ConcCallers, MaxKeys, ConcEnv)

\* One call with many attempts on the default provider; the adapter answers
\* or fails with a 5xx.
LongEnv == [provs |-> {"unset"}, retries |-> {LongRetries}, outs |-> {"ok", "s500"}]

LongInit == Construct(SeqCallers, LiveMaxKeys, LongEnv)

\* Many callers at once on one configured provider: default provider, one
\* attempt, the adapter answers or fails with a 5xx.
LimEnv == [provs |-> {"unset"}, retries |-> {1}, outs |-> {"ok", "s500"}]

LimInit ==
  /\ Construct(Callers, LiveMaxKeys, LimEnv)
  /\ Cardinality({p \in Providers : keys[p] > 0}) = 1

\* --------------------------------------------------------------- registry
\* (variant: a rotation advances the index of every provider)
rotateKeyAll(ix, p) ==
  [q \in Providers |-> IF keys[q] = 0 THEN ix[q] ELSE (ix[q] + 1) % keys[q]]

\* (variant: the index is advanced without wrapping around)
rotateKeyNoWrap(ix, p) ==
  IF keys[p] = 0 THEN ix
  ELSE [ix EXCEPT ![p] = ix[p] + 1]

\* rotateOpenAIKey / rotateAnthropicKey / rotateSentientKey
rotateKey(ix, p) ==
  IF keys[p] = 0 THEN ix
  ELSE [ix EXCEPT ![p] = (ix[p] + 1) % keys[p]]

\* (variant: only auth errors rotate)
ShouldRotateAuthOnly(status) == status = "s401"

\* the rotation test of the catch block
ShouldRotate(status) == status = "s429" \/ status = "s401"

\* sleep duration after a failed attempt
BackoffMs(attempt) == BackoffBaseMs * (2 ^ attempt)

\* (variant: the candidates are visited in reverse order)
fallbackOrderReversed(failed) ==
  SelectSeq(<<"anthropic", "openai", "sentient">>, LAMBDA p : p # failed)

\* (variant: the failed provider is not filtered out)
fallbackOrderAll(failed) == Priority

\* ['sentient','openai','anthropic'].filter(p => p !== failedProvider)
fallbackOrder(failed) == SelectSeq(Priority, LAMBDA p : p # failed)

\* ------------------------------------------------------------- event log
\* Each call keeps the ordered list of what it did: adapter calls (with the
\* key index of the client it took and how the call ended), rotations,
\* sleeps and "provider not available" throws.
CallEv(p, k, isFb) == [t |-> "call", p |-> p, k |-> k, o |-> "pending", fb |-> isFb]
RotateEv(p) == [t |-> "rotate", p |-> p, k |-> 0, o |-> "-", fb |-> FALSE]
SleepEv(ms) == [t |-> "sleep", p |-> "-", k |-> ms, o |-> "-", fb |-> FALSE]
UnavailEv(p) == [t |-> "unavail", p |-> p, k |-> 0, o |-> "-", fb |-> FALSE]

\* chatWithOpenAI / chatWithAnthropic / chatWithSentient up to limiter.schedule:
\* the client of the current index is taken now, the job is queued.
chatWith(r, ix, p, isFb, pos) ==
  [r EXCEPT !.pc = "queued", !.fb = isFb, !.fbPos = pos,
            !.log = Append(@, CallEv(p, ix[p], isFb))]

\* (variant: a failed fallback call rotates the key of its provider)
fallbackFromRotating(r, ix, from) ==
  LET order == fallbackOrder(r.provider)
      ix2   == IF from > 1 THEN rotateKey(ix, order[from - 1]) ELSE ix
      cands == {j \in from..Len(order) : keys[order[j]] > 0}
  IN IF cands = {}
     THEN [r |-> [r EXCEPT !.pc = "done", !.fb = TRUE,
                           !.result = [kind |-> "error", p |-> "AllFallbackFailed", k |-> 0]],
           ix |-> ix2, enq |-> FALSE]
     ELSE LET j == CHOOSE m \in cands : \A n \in cands : m <= n
          IN [r |-> chatWith(r, ix2, order[j], TRUE, j), ix |-> ix2, enq |-> TRUE]

\* (variant: the fallback calls the client directly, not through the limiter)
fallbackFromDirect(r, ix, from) ==
  LET order == fallbackOrder(r.provider)
      cands == {j \in from..Len(order) : keys[order[j]] > 0}
  IN IF cands = {}
     THEN [r |-> [r EXCEPT !.pc = "done", !.fb = TRUE,
                           !.result = [kind |-> "error", p |-> "AllFallbackFailed", k |-> 0]],
           ix |-> ix, enq |-> FALSE]
     ELSE LET j == CHOOSE m \in cands : \A n \in cands : m <= n
          IN [r |-> [chatWith(r, ix, order[j], TRUE, j) EXCEPT !.pc = "running"],
              ix |-> ix, enq |-> FALSE]

\* (variant: only the first alternate provider is tried)
fallbackFromFirstOnly(r, ix, from) ==
  LET order == fallbackOrder(r.provider)
      cands == {j \in from..Len(order) : keys[order[j]] > 0}
  IN IF cands = {} \/ from > 1
     THEN [r |-> [r EXCEPT !.pc = "done", !.fb = TRUE,
                           !.result = [kind |-> "error", p |-> "AllFallbackFailed", k |-> 0]],
           ix |-> ix, enq |-> FALSE]
     ELSE LET j == CHOOSE m \in cands : \A n \in cands : m <= n
          IN [r |-> chatWith(r, ix, order[j], TRUE, j), ix |-> ix, enq |-> TRUE]

\* (variant: the final throw is missing, the function returns undefined)
fallbackFromNoThrow(r, ix, from) ==
  LET order == fallbackOrder(r.provider)
      cands == {j \in from..Len(order) : keys[order[j]] > 0}
  IN IF cands = {}
     THEN [r |-> [r EXCEPT !.pc = "done", !.fb = TRUE], ix |-> ix, enq |-> FALSE]
     ELSE LET j == CHOOSE m \in cands : \A n \in cands : m <= n
          IN [r |-> chatWith(r, ix, order[j], TRUE, j), ix |-> ix, enq |-> TRUE]

\* fallbackToAvailableProvider from position `from` of the fallback order:
\* unconfigured providers fall through the if-chain without a call.
fallbackFrom(r, ix, from) ==
  LET order == fallbackOrder(r.provider)
      cands == {j \in from..Len(order) : keys[order[j]] > 0}
  IN IF cands = {}
     THEN [r |-> [r EXCEPT !.pc = "done", !.fb = TRUE,
                           !.result = [kind |-> "error", p |-> "AllFallbackFailed", k |-> 0]],
           ix |-> ix, enq |-> FALSE]
     ELSE LET j == CHOOSE m \in cands : \A n \in cands : m <= n
          IN [r |-> chatWith(r, ix, order[j], TRUE, j), ix |-> ix, enq |-> TRUE]

\* (variant: the fallback is taken one attempt early)
catchBlockEarly(r, ix, status) ==
  LET rot == ShouldRotate(status)
      ix2 == IF rot THEN rotateKey(ix, r.provider) ELSE ix
      r2  == IF rot THEN [r EXCEPT !.log = Append(@, RotateEv(r.provider))] ELSE r
  IN IF r2.attempt >= r2.maxRetries - 2
     THEN fallbackFrom(r2, ix2, 1)
     ELSE [r |-> [r2 EXCEPT !.pc = "sleeping",
                            !.log = Append(@, SleepEv(BackoffMs(r2.attempt)))],
           ix |-> ix2, enq |-> FALSE]

\* the catch block of chat(): rotate on 429/401, fall back on the last
\* attempt, otherwise sleep.
catchBlock(r, ix, status) ==
  LET rot == ShouldRotate(status)
      ix2 == IF rot THEN rotateKey(ix, r.provider) ELSE ix
      r2  == IF rot THEN [r EXCEPT !.log = Append(@, RotateEv(r.provider))] ELSE r
  IN IF r2.attempt = r2.maxRetries - 1
     THEN fallbackFrom(r2, ix2, 1)
     ELSE [r |-> [r2 EXCEPT !.pc = "sleeping",
                            !.log = Append(@, SleepEv(BackoffMs(r2.attempt)))],
           ix |-> ix2, enq |-> FALSE]

\* one iteration of the attempt loop up to its await
loopBody(r, ix) ==
  IF keys[r.provider] > 0
  THEN [r |-> chatWith(r, ix, r.provider, FALSE, 0), ix |-> ix, enq |-> TRUE]
  ELSE catchBlock([r EXCEPT !.log = Append(@, UnavailEv(r.provider))], ix, "nostatus")

Apply(c, res) ==
  /\ call' = [call EXCEPT ![c] = res.r]
  /\ idx' = res.ix
  /\ queue' = IF res.enq THEN Append(queue, c) ELSE queue

\* ---------------------------------------------------------------- actions
\* chat(messages, options): resolve provider and maxRetries, first iteration
Start(c) ==
  /\ defaultProvider # "none"
  /\ c \in live
  /\ call[c].pc = "idle"
  /\ \E optProvider \in env.provs, optRetries \in env.retries :
       LET provider == IF optProvider = "unset" THEN defaultProvider ELSE optProvider
           maxRetries == IF optRetries = 0 THEN DefaultMaxRetries ELSE optRetries
           r == [IdleCall EXCEPT !.provider = provider, !.maxRetries = maxRetries]
       IN Apply(c, loopBody(r, idx))
  /\ UNCHANGED <<keys, defaultProvider, running, elapsed, live, env, probe, avail, utilVars>>

\* (variant: the job takes the client of the current index when it starts)
DispatchCurrentKey(c) ==
  /\ queue # <<>>
  /\ Head(queue) = c
  /\ Cardinality(running) < MaxConcurrent
  /\ elapsed >= MinTimeMs
  /\ queue' = Tail(queue)
  /\ running' = running \cup {c}
  /\ elapsed' = 0
  /\ LET log == call[c].log
     IN call' = [call EXCEPT ![c].pc = "running",
                             ![c].log = [log EXCEPT ![Len(log)].k = idx[log[Len(log)].p]]]
  /\ UNCHANGED <<keys, idx, defaultProvider, live, env, probe, avail, utilVars>>

\* (variant: the job is started without asking the limiter)
DispatchNoLimit(c) ==
  /\ queue # <<>>
  /\ Head(queue) = c
  /\ queue' = Tail(queue)
  /\ running' = running \cup {c}
  /\ elapsed' = 0
  /\ call' = [call EXCEPT ![c].pc = "running"]
  /\ UNCHANGED <<keys, idx, defaultProvider, live, env, probe, avail, utilVars>>

\* the limiter starts the job at the head of its queue: a slot is free and
\* minTime has passed since it started the previous job
Dispatch(c) ==
  /\ queue # <<>>
  /\ Head(queue) = c
  /\ Cardinality(running) < MaxConcurrent
  /\ elapsed >= MinTimeMs
  /\ queue' = Tail(queue)
  /\ running' = running \cup {c}
  /\ elapsed' = 0
  /\ call' = [call EXCEPT ![c].pc = "running"]
  /\ UNCHANGED <<keys, idx, defaultProvider, live, env, probe, avail, utilVars>>

\* the limiter's timer for the job at the head of the queue fires: minTime
\* has passed since it started the previous job
Tick ==
  /\ queue # <<>>
  /\ elapsed < MinTimeMs
  /\ elapsed' = MinTimeMs
  /\ UNCHANGED <<keys, idx, defaultProvider, queue, running, live, env, call, probe, avail, utilVars>>

\* The attempt loop's catch block reads error.status; the catch block of the
\* fallback loop only logs the message and continues, so for a fallback call
\* the log keeps whether it failed, not the status.
Logged(isFb, out) == IF isFb /\ out # "ok" THEN "failed" ELSE out

SetOutcome(log, out) == [log EXCEPT ![Len(log)].o = out]

\* (variant: the slot is given back only when the call succeeded)
CompleteKeepSlot(c) ==
  /\ c \in running
  /\ call[c].pc = "running"
  /\ \E out \in env.outs :
       LET ev == call[c].log[Len(call[c].log)]
           r  == [call[c] EXCEPT !.log = SetOutcome(@, Logged(call[c].fb, out))]
       IN IF out = "ok"
          THEN /\ call' = [call EXCEPT ![c] =
                              [r EXCEPT !.pc = "done",
                                        !.result = [kind |-> "result", p |-> ev.p, k |-> ev.k]]]
               /\ running' = running \ {c}
               /\ UNCHANGED <<idx, queue, avail, utilVars>>
          ELSE /\ running' = running
               /\ IF call[c].fb
                  THEN Apply(c, fallbackFrom(r, idx, call[c].fbPos + 1))
                  ELSE Apply(c, catchBlock(r, idx, out))
  /\ UNCHANGED <<keys, defaultProvider, elapsed, live, env, probe, avail, utilVars>>

\* the adapter call of c completes with `out`; the awaiting code continues
Complete(c) ==
  /\ c \in running
  /\ call[c].pc = "running"
  /\ running' = running \ {c}
  /\ \E out \in env.outs :
       LET ev == call[c].log[Len(call[c].log)]
           r  == [call[c] EXCEPT !.log = SetOutcome(@, Logged(call[c].fb, out))]
       IN IF out = "ok"
          THEN /\ call' = [call EXCEPT ![c] =
                              [r EXCEPT !.pc = "done",
                                        !.result = [kind |-> "result", p |-> ev.p, k |-> ev.k]]]
               /\ UNCHANGED <<idx, queue, avail, utilVars>>
          ELSE IF call[c].fb
               THEN Apply(c, fallbackFrom(r, idx, call[c].fbPos + 1))
               ELSE Apply(c, catchBlock(r, idx, out))
  /\ UNCHANGED <<keys, defaultProvider, elapsed, live, env, probe, avail, utilVars>>

\* the SDK call of c never settles.  The limiter is built without an
\* expiration, the clients without a timeout, and chat() takes no deadline:
\* nothing in the gateway ends the job.
Hang(c) ==
  /\ c \in running
  /\ call[c].pc = "running"
  /\ call' = [call EXCEPT ![c].pc = "hung"]
  /\ UNCHANGED <<keys, idx, defaultProvider, queue, running, elapsed, live, env, probe, avail, utilVars>>

\* the backoff sleep ends: next iteration of the attempt loop
\* (falling out of the loop reaches the final throw of chat())
Wake(c) ==
  /\ call[c].pc = "sleeping"
  /\ LET r == [call[c] EXCEPT !.attempt = @ + 1]
     IN IF r.attempt < r.maxRetries
        THEN Apply(c, loopBody(r, idx))
        ELSE Apply(c, [r |-> [r EXCEPT !.pc = "done",
                                       !.result = [kind |-> "error", p |-> "AllProvidersFailed", k |-> 0]],
                       ix |-> idx, enq |-> FALSE])
  /\ UNCHANGED <<keys, defaultProvider, running, elapsed, live, env, probe, avail, utilVars>>

\* the caller of chat() has received the result or the error
Return(c) ==
  /\ call[c].pc = "done"
  /\ call' = [call EXCEPT ![c] = IdleCall]
  /\ UNCHANGED <<keys, idx, defaultProvider, queue, running, elapsed, live, env, probe, avail, utilVars>>

Next ==
  \/ \E c \in Callers : Start(c)
  \/ \E c \in Callers : Dispatch(c)
  \/ \E c \in Callers : Complete(c)
  \/ \E c \in Callers : Wake(c)
  \/ \E c \in Callers : Return(c)
  \/ Tick

Spec == Init /\ [][Next]_vars

ConcSpec == ConcInit /\ [][Next]_vars

LongSpec == LongInit /\ [][Next]_vars

\* code outside chat() calls a rotate method of the instance
RotateCall(p) ==
  /\ defaultProvider # "none"
  /\ idx' = rotateKey(idx, p)
  /\ probe' = [p |-> p, before |-> idx[p], after |-> idx'[p]]
  /\ UNCHANGED <<keys, defaultProvider, queue, running, elapsed, live, env, call, avail, utilVars>>

RotNext == \E p \in Providers : RotateCall(p)

RotSpec == Init /\ [][RotNext]_vars

\* (variant: a provider counts as available only while its first key is current)
getAvailableProvidersCurrent == [p \in Providers |-> keys[p] > 0 /\ idx[p] = 0]

\* getAvailableProviders(): provider -> whether it has a client
getAvailableProviders == [p \in Providers |-> keys[p] > 0]

\* code outside chat() calls getAvailableProviders(); the first and the
\* latest returned mapping are kept, the first with the indices at that
\* time, the latest with whether an index has moved since
GetAvailableCall ==
  /\ defaultProvider # "none"
  /\ avail' = IF avail = <<>>
              THEN <<[ret |-> getAvailableProviders, at |-> idx, moved |-> FALSE]>>
              ELSE <<avail[1], [ret |-> getAvailableProviders, at |-> avail[1].at,
                                moved |-> idx # avail[1].at]>>
  /\ UNCHANGED <<keys, idx, defaultProvider, queue, running, elapsed, live, env, call,
                 probe, utilVars>>

\* One caller on the default provider with up to two attempts; the adapter
\* answers or fails with a 429, so that calls rotate and fall back; between
\* them, calls of getAvailableProviders().
ObsInit == Construct(SeqCallers, MaxKeys, ConcEnv)

ObsNext ==
  \/ Next
  \/ GetAvailableCall

ObsSpec == ObsInit /\ [][ObsNext]_vars

\* the gateway state in the specifications of the other components
GatewayUnused ==
  /\ keys = [p \in Providers |-> 0]
  /\ idx = [p \in Providers |-> 0]
  /\ defaultProvider = "none"
  /\ queue = <<>>
  /\ running = {}
  /\ elapsed = MinTimeMs
  /\ live = {}
  /\ env = FullEnv
  /\ call = [c \in Callers |-> IdleCall]
  /\ probe = NoProbe
  /\ avail = <<>>

\* ------------------------------------------------------- Anthropic adapter
\* the roles a caller may put in a message ("tool" stands for any role that
\* is neither system, user nor assistant) and the texts
Roles == {"system", "user", "assistant", "tool"}
Contents == {"", "hello"}
Message == [role : Roles, content : Contents]

SeqsUpTo(S, n) == UNION {[1..k -> S] : k \in 0..n}

\* message sequences with at most one system message
MessageSeqs ==
  {m \in SeqsUpTo(Message, MaxMessages) :
     Cardinality({i \in 1..Len(m) : m[i].role = "system"}) <= 1}

\* messages.find(m => m.role === 'system'): the first one, or none
systemMessage(messages) ==
  LET S == {i \in 1..Len(messages) : messages[i].role = "system"}
  IN IF S = {} THEN <<>> ELSE <<messages[CHOOSE i \in S : \A j \in S : i <= j]>>

\* systemMessage?.content || ''
systemField(messages) ==
  LET sm == systemMessage(messages)
  IN IF sm = <<>> \/ sm[1].content = "" THEN "" ELSE sm[1].content

\* (variant: the system message stays in the array)
conversationMessagesAll(messages) == messages

\* messages.filter(m => m.role !== 'system')
conversationMessages(messages) == SelectSeq(messages, LAMBDA m : m.role # "system")

\* conversationMessages.map(m => ({role: ..., content: m.content}))
anthropicMessages(messages) ==
  LET cm == conversationMessages(messages)
  IN [i \in 1..Len(cm) |->
        [role |-> IF cm[i].role = "assistant" THEN "assistant" ELSE "user",
         content |-> cm[i].content]]

\* the job of chatWithAnthropic builds the request of client.messages.create
AnthropicCreate ==
  /\ ~wire.sent
  /\ wire' = [wire EXCEPT !.sent = TRUE,
                          !.system = systemField(wire.messages),
                          !.array = anthropicMessages(wire.messages)]
  /\ UNCHANGED <<keys, idx, defaultProvider, queue, running, elapsed, live, env, call,
                 probe, avail, rl, bo, dm>>

WireInit ==
  /\ GatewayUnused
  /\ wire \in {[NoWire EXCEPT !.messages = m] : m \in MessageSeqs}
  /\ rl = NoLimiter
  /\ bo = NoBackoff
  /\ dm = NoHandler

WireSpec == WireInit /\ [][AnthropicCreate]_vars

\* adapter calls may hang
HangNext ==
  \/ Next
  \/ \E c \in Callers : Hang(c)

HangSpec ==
  /\ LiveInit /\ [][HangNext]_vars
  /\ \A c \in SeqCallers : WF_vars(Dispatch(c)) /\ WF_vars(Complete(c)) /\ WF_vars(Wake(c))
  /\ WF_vars(Tick)

\* with one attempt per call no call ever sleeps
LimNext ==
  \/ \E c \in Callers : Start(c)
  \/ \E c \in Callers : Dispatch(c)
  \/ \E c \in Callers : Complete(c)
  \/ \E c \in Callers : Return(c)
  \/ Tick

LimSpec == LimInit /\ [][LimNext]_vars

\* the event loop runs every ready continuation: a queued job is dispatched,
\* a dispatched adapter call completes, a timer fires
FairSpec ==
  /\ LiveInit /\ [][Next]_vars
  /\ \A c \in SeqCallers : WF_vars(Dispatch(c)) /\ WF_vars(Complete(c)) /\ WF_vars(Wake(c))
  /\ WF_vars(Tick)

\* -------------------------------------------------------------- DM handler
\* (src/unnamed/part_010, with RedditService.replyToMessage of part_002)
\* dm.pc is the await the handler is suspended at; dm.i the message of the
\* for loop; dm.marks counts the markAsRead() invocations per message.
HandlerIdle ==
  [pc |-> "checkUnreadMessages", n |-> 0, i |-> 0, processed |-> <<>>, failed |-> <<>>,
   marks |-> <<>>]

\* the for loop takes the next message (runs up to its first await), or
\* ends and the handler responds
nextMessage(h) ==
  IF h.i < h.n
  THEN [h EXCEPT !.i = @ + 1, !.pc = "getConversationHistory"]
  ELSE [h EXCEPT !.i = @ + 1, !.pc = "responded"]

\* the catch block of the loop body up to its await: the failure is
\* recorded and markAsRead() is invoked
catchMessage(h, error) ==
  [h EXCEPT !.failed = Append(@, [author |-> h.i, error |-> error]),
            !.marks[h.i] = @ + 1,
            !.pc = "markAsRead"]

\* redditService.checkUnreadMessages() settles with n messages
CheckUnreadMessages ==
  /\ dm.pc = "checkUnreadMessages"
  /\ \E n \in 0..MaxUnread :
       dm' = IF n = 0
             THEN [dm EXCEPT !.pc = "responded"]
             ELSE nextMessage([dm EXCEPT !.n = n, !.marks = [m \in 1..n |-> 0]])
  /\ UNCHANGED <<keys, idx, defaultProvider, queue, running, elapsed, live, env, call,
                 probe, avail, wire, rl, bo>>

\* an awaited call of the loop body settles: the body goes on to its next
\* await, or the call threw and the catch block runs
Settle(at, next) ==
  /\ dm.pc = at
  /\ \E ok \in BOOLEAN :
       dm' = IF ok THEN [dm EXCEPT !.pc = next] ELSE catchMessage(dm, at)
  /\ UNCHANGED <<keys, idx, defaultProvider, queue, running, elapsed, live, env, call,
                 probe, avail, wire, rl, bo>>

GetConversationHistory == Settle("getConversationHistory", "chat")

Chat == Settle("chat", "replyToMessage")

\* (variant: replyToMessage replies without marking the message as read)
ReplyToMessageNoMark ==
  /\ dm.pc = "replyToMessage"
  /\ \E out \in {"ok", "reply"} :
       dm' = IF out = "ok" THEN [dm EXCEPT !.pc = "saveConversation"]
             ELSE catchMessage(dm, out)
  /\ UNCHANGED <<keys, idx, defaultProvider, queue, running, elapsed, live, env, call,
                 probe, avail, wire, rl, bo>>

\* redditService.replyToMessage: message.reply(), then message.markAsRead();
\* either may throw, and the error is thrown on to the handler
ReplyToMessage ==
  /\ dm.pc = "replyToMessage"
  /\ \E out \in {"ok", "reply", "markAsRead"} :
       LET h == IF out = "reply" THEN dm ELSE [dm EXCEPT !.marks[dm.i] = @ + 1]
       IN dm' = IF out = "ok" THEN [h EXCEPT !.pc = "saveConversation"]
                ELSE catchMessage(h, out)
  /\ UNCHANGED <<keys, idx, defaultProvider, queue, running, elapsed, live, env, call,
                 probe, avail, wire, rl, bo>>

SaveConversation == Settle("saveConversation", "logAnalytics")

\* logAnalytics settles; on success the message is pushed on processed and
\* the loop goes on
LogAnalytics ==
  /\ dm.pc = "logAnalytics"
  /\ \E ok \in BOOLEAN :
       dm' = IF ok THEN nextMessage([dm EXCEPT !.processed = Append(@, dm.i)])
             ELSE catchMessage(dm, "logAnalytics")
  /\ UNCHANGED <<keys, idx, defaultProvider, queue, running, elapsed, live, env, call,
                 probe, avail, wire, rl, bo>>

\* the markAsRead() of the catch block settles; its error is only logged
MarkAsRead ==
  /\ dm.pc = "markAsRead"
  /\ dm' = nextMessage(dm)
  /\ UNCHANGED <<keys, idx, defaultProvider, queue, running, elapsed, live, env, call,
                 probe, avail, wire, rl, bo>>

HandlerInit ==
  /\ GatewayUnused
  /\ wire = NoWire
  /\ rl = NoLimiter
  /\ bo = NoBackoff
  /\ dm = HandlerIdle

HandlerNext ==
  \/ CheckUnreadMessages
  \/ GetConversationHistory
  \/ Chat
  \/ ReplyToMessage
  \/ SaveConversation
  \/ LogAnalytics
  \/ MarkAsRead

HandlerSpec == HandlerInit /\ [][HandlerNext]_vars

\* ------------------------------------------------------------- RateLimiter
\* (src/src/utils/rate-limiter.js)  Time is kept relative: rl.calls holds,
\* for each timestamp of this.calls, its age now - timestamp, oldest first;
\* every age of periodMs or more is kept as periodMs, since the code only
\* compares ages with periodMs.  rl.recent holds the ages of all admitted
\* calls that are less than periodMs old, whatever this.calls still holds.
\* rl.timers holds the sleeping callers in the order their timers fire:
\* by due time, and for the same due time in the order they were set.
\* one more throttle() caller than the largest maxCalls
Throttlers == 1..(MaxMaxCalls + 1)

NewLimiter(maxCalls, periodMs) ==
  [maxCalls |-> maxCalls, periodMs |-> periodMs, calls |-> <<>>, recent |-> <<>>,
   pc |-> [c \in Throttlers |-> "idle"], wait |-> [c \in Throttlers |-> 0],
   timers |-> <<>>, available |-> maxCalls]

\* setTimeout(resolve, ms) by caller c
setTimer(r, c, ms) ==
  LET before == SelectSeq(r.timers, LAMBDA d : r.wait[d] <= ms)
      after  == SelectSeq(r.timers, LAMBDA d : r.wait[d] > ms)
  IN before \o <<c>> \o after

\* this.calls.filter(timestamp => now - timestamp < this.periodMs)
recentCalls(r) == SelectSeq(r.calls, LAMBDA age : age < r.periodMs)

\* throttle() of caller c from its start to its await or its return
throttle(r, c) ==
  LET calls == recentCalls(r)
      waitTime == r.periodMs - calls[1]
  IN IF Len(calls) >= r.maxCalls /\ waitTime > 0
     THEN [r EXCEPT !.calls = calls, !.pc[c] = "sleeping", !.wait[c] = waitTime,
                    !.timers = setTimer(r, c, waitTime)]
     ELSE [r EXCEPT !.calls = Append(calls, 0), !.recent = Append(@, 0),
                    !.pc[c] = "idle", !.wait[c] = 0]

\* a caller calls throttle()
Throttle(c) ==
  /\ rl.pc[c] = "idle"
  /\ rl' = throttle(rl, c)
  /\ UNCHANGED <<keys, idx, defaultProvider, queue, running, elapsed, live, env, call,
                 probe, avail, wire, bo, dm>>

\* (variant: after its sleep the caller is admitted without a new check)
WakeThrottleNoRetry(c) ==
  /\ rl.timers # <<>>
  /\ Head(rl.timers) = c
  /\ rl.wait[c] = 0
  /\ rl' = [rl EXCEPT !.calls = Append(@, 0), !.recent = Append(@, 0), !.pc[c] = "idle",
                      !.timers = Tail(@)]
  /\ UNCHANGED <<keys, idx, defaultProvider, queue, running, elapsed, live, env, call,
                 probe, avail, wire, bo, dm>>

\* the timer of c is due and fires: return this.throttle()
WakeThrottle(c) ==
  /\ rl.timers # <<>>
  /\ Head(rl.timers) = c
  /\ rl.wait[c] = 0
  /\ rl' = throttle([rl EXCEPT !.timers = Tail(@)], c)
  /\ UNCHANGED <<keys, idx, defaultProvider, queue, running, elapsed, live, env, call,
                 probe, avail, wire, bo, dm>>

\* getStats(): the value of available is kept
GetStats ==
  /\ rl' = [rl EXCEPT !.available = rl.maxCalls - Len(recentCalls(rl))]
  /\ UNCHANGED <<keys, idx, defaultProvider, queue, running, elapsed, live, env, call,
                 probe, avail, wire, bo, dm>>

\* one millisecond passes
Older(ages, cap) == [i \in 1..Len(ages) |-> IF ages[i] < cap THEN ages[i] + 1 ELSE cap]

Millisecond ==
  /\ rl' = [rl EXCEPT
              !.calls = Older(@, rl.periodMs),
              !.recent = SelectSeq(Older(@, rl.periodMs), LAMBDA age : age < rl.periodMs),
              !.wait = [c \in Throttlers |-> IF @[c] > 0 THEN @[c] - 1 ELSE 0]]
  /\ UNCHANGED <<keys, idx, defaultProvider, queue, running, elapsed, live, env, call,
                 probe, avail, wire, bo, dm>>

LimiterInit ==
  /\ GatewayUnused
  /\ wire = NoWire
  /\ rl \in {NewLimiter(m, t) : m \in 1..MaxMaxCalls, t \in 1..MaxPeriodMs}
  /\ bo = NoBackoff
  /\ dm = NoHandler

LimiterNext ==
  \/ \E c \in Throttlers : Throttle(c)
  \/ \E c \in Throttlers : WakeThrottle(c)
  \/ GetStats
  \/ Millisecond

LimiterSpec == LimiterInit /\ [][LimiterNext]_vars

\* time goes on and a timer that is due fires
LimiterFairSpec ==
  /\ LimiterInit /\ [][LimiterNext]_vars
  /\ \A c \in Throttlers : WF_vars(WakeThrottle(c))
  /\ WF_vars(Millisecond)

\* ------------------------------------------------------ ExponentialBackoff
\* (src/src/utils/rate-limiter.js)  One user that awaits each wait() before
\* its next call.  Besides the fields of the instance, bo keeps the number
\* of wait() calls since construction or the last reset() (waits), the
\* delay of the latest sleep (slept), the latest return value of wait()
\* (returned) and the latest operation (last).
NewBackoff(initialDelay, maxDelay, factor) ==
  [initialDelay |-> initialDelay, maxDelay |-> maxDelay, factor |-> factor,
   currentDelay |-> initialDelay, attempts |-> 0,
   pc |-> "idle", waits |-> 0, slept |-> 0, returned |-> 0, last |-> "new"]

Min(a, b) == IF a <= b THEN a ELSE b

\* (variant: the delay is not capped)
backoffDelayUncapped(b) == b.currentDelay

\* Math.min(this.currentDelay, this.maxDelay)
backoffDelay(b) == Min(b.currentDelay, b.maxDelay)

\* wait() up to its await
BackoffWait ==
  /\ bo.pc = "idle"
  /\ bo.waits < MaxWaits
  /\ bo' = [bo EXCEPT !.pc = "sleeping", !.slept = backoffDelay(bo), !.waits = @ + 1,
                      !.last = "wait"]
  /\ UNCHANGED <<keys, idx, defaultProvider, queue, running, elapsed, live, env, call,
                 probe, avail, wire, rl, dm>>

\* the timer of wait() fires: the rest of wait()
BackoffWake ==
  /\ bo.pc = "sleeping"
  /\ bo' = [bo EXCEPT !.pc = "idle", !.currentDelay = @ * bo.factor,
                      !.attempts = @ + 1, !.returned = bo.attempts + 1]
  /\ UNCHANGED <<keys, idx, defaultProvider, queue, running, elapsed, live, env, call,
                 probe, avail, wire, rl, dm>>

\* reset()
BackoffReset ==
  /\ bo.pc = "idle"
  /\ bo' = [bo EXCEPT !.currentDelay = bo.initialDelay, !.attempts = 0,
                      !.waits = 0, !.last = "reset"]
  /\ UNCHANGED <<keys, idx, defaultProvider, queue, running, elapsed, live, env, call,
                 probe, avail, wire, rl, dm>>

\* getAttempts()
getAttempts(b) == b.attempts

\* the default instance, and instances with small arguments
BackoffInit ==
  /\ GatewayUnused
  /\ wire = NoWire
  /\ rl = NoLimiter
  /\ bo \in {NewBackoff(InitialDelayMs, MaxDelayMs, DefaultFactor)} \cup
            {NewBackoff(i, m, f) : i \in 1..MaxBackoffArg,
                                   m \in 1..(MaxBackoffArg * MaxBackoffArg),
                                   f \in 1..MaxBackoffArg}
  /\ dm = NoHandler

BackoffNext ==
  \/ BackoffWait
  \/ BackoffWake
  \/ BackoffReset

BackoffSpec == BackoffInit /\ [][BackoffNext]_vars

\* ------------------------------------------------------------ observations
Active == {"queued", "running", "sleeping"}

\* the spec's error classes, by the status the adapter surfaces
AuthError == {"s401", "s403"}
RateLimitError == {"s429"}
TransientError == {"s500"}
FatalError == {"s400"}

\* positions of the log of c holding adapter calls (to provider p; of the
\* attempt loop; of the fallback)
CallPos(c) == {i \in 1..Len(call[c].log) : call[c].log[i].t = "call"}
CallPosTo(c, p) == {i \in CallPos(c) : call[c].log[i].p = p}
PrimaryPos(c) == {i \in CallPos(c) : ~call[c].log[i].fb}
FallbackPos(c) == {i \in CallPos(c) : call[c].log[i].fb}
EvPos(c, kind) == {i \in 1..Len(call[c].log) : call[c].log[i].t = kind}

\* --------------------------------------------------------------- claims
\* C1: a chat() call issues at most maxRetries adapter calls to the provider
\* it resolved to and at most one adapter call to each other provider.
C1_CallBudget ==
  \A c \in Callers : call[c].pc # "idle" =>
    \A p \in Providers :
      Cardinality(CallPosTo(c, p)) <=
        (IF p = call[c].provider THEN call[c].maxRetries ELSE 1)

C1_Witness ==
  \E c \in Callers :
    /\ call[c].pc = "done"
    /\ call[c].maxRetries = 3
    /\ Cardinality(CallPosTo(c, call[c].provider)) = 3
    /\ \A p \in Providers \ {call[c].provider} : Cardinality(CallPosTo(c, p)) = 1

\* C2: every chat() call that was started finishes, and it finishes with one
\* outcome: a result or an error; before it finishes it has no outcome.
C2_FinishesOnce ==
  \A c \in SeqCallers :
    /\ [](call[c].pc \in Active =>
            <>(call[c].pc = "done" /\ call[c].result.kind \in {"result", "error"}))
    /\ [](call[c].pc \in Active \cup {"idle"} => call[c].result.kind = "none")

C2_Witness ==
  \E c \in Callers :
    /\ call[c].pc = "done"
    /\ call[c].result.kind = "error"
    /\ Cardinality(CallPos(c)) >= 4

\* the adapter calls of c in the order they were issued, and the other
\* configured providers in priority order
CallSeq(c) == SelectSeq(call[c].log, LAMBDA e : e.t = "call")
FallbackSeq(c) == SelectSeq(call[c].log, LAMBDA e : e.t = "call" /\ e.fb)
PriorityOthers(p) == SelectSeq(Priority, LAMBDA q : q # p /\ keys[q] > 0)
FirstOf(S) == CHOOSE i \in S : \A j \in S : i <= j
\* j is the attempt following attempt i of the loop
NextAttempt(c, i, j) ==
  /\ i \in PrimaryPos(c) /\ j \in PrimaryPos(c) /\ i < j
  /\ \A m \in PrimaryPos(c) : ~(i < m /\ m < j)

\* C3: a chat() call naming a provider without keys fails at once: it ends
\* with an error without any adapter call, sleep, retry or fallback.
C3_FailFast ==
  \A c \in Callers :
    (call[c].pc # "idle" /\ keys[call[c].provider] = 0) =>
      /\ call[c].pc = "done"
      /\ call[c].result.kind = "error"
      /\ CallPos(c) = {}
      /\ EvPos(c, "sleep") = {}
      /\ ~call[c].fb

\* C4: when the first attempt fails with a FatalError the attempt loop stops:
\* that attempt stays the only adapter call to the primary provider.
C4_FatalAborts ==
  \A c \in Callers :
    (PrimaryPos(c) # {} /\ call[c].log[FirstOf(PrimaryPos(c))].o \in FatalError) =>
      /\ Cardinality(CallPosTo(c, call[c].provider)) = 1
      /\ call[c].pc # "sleeping"

\* C5: with maxRetries = 3 and a configured primary whose calls all fail with
\* a TransientError, a finished chat() has made exactly 3 primary calls
\* first, then one call to each next configured provider in priority order,
\* and it ends with the all-failed error exactly when all of those failed.
C5_TransientExhaustion ==
  \A c \in Callers :
    (/\ call[c].pc = "done"
     /\ call[c].maxRetries = 3
     /\ keys[call[c].provider] > 0
     /\ \A i \in PrimaryPos(c) : call[c].log[i].o \in TransientError) =>
      LET cs == CallSeq(c)
          others == PriorityOthers(call[c].provider)
          n == Len(cs) - 3
      IN /\ n >= 0 /\ n <= Len(others)
         /\ \A j \in 1..3 : cs[j].p = call[c].provider /\ ~cs[j].fb
         /\ \A j \in 1..n : cs[3 + j].p = others[j] /\ cs[3 + j].fb
         /\ \A j \in 1..(n - 1) : cs[3 + j].o = "failed"
         /\ call[c].result.kind = "error" <=>
              (n = Len(others) /\ \A j \in 1..n : cs[3 + j].o = "failed")
         /\ call[c].result.kind = "error" => call[c].result.p = "AllFallbackFailed"

C5_Witness ==
  \E c \in Callers :
    /\ call[c].pc = "done"
    /\ call[c].maxRetries = 3
    /\ Cardinality(PrimaryPos(c)) = 3
    /\ \A i \in PrimaryPos(c) : call[c].log[i].o \in TransientError
    /\ Cardinality(FallbackPos(c)) = 2
    /\ call[c].result.kind = "error"

\* C6: after an attempt that failed with an AuthError or a RateLimitError the
\* primary provider's key is rotated exactly once before the next attempt.
C6_RotatesOnce ==
  \A c \in Callers :
    \A i, j \in PrimaryPos(c) :
      (NextAttempt(c, i, j) /\ call[c].log[i].o \in AuthError \cup RateLimitError) =>
        Cardinality({m \in EvPos(c, "rotate") :
                       i < m /\ m < j /\ call[c].log[m].p = call[c].provider}) = 1

\* C7: no sleep follows an attempt that failed with an AuthError or a
\* RateLimitError, nor the rotation after it.
C7_NoSleepAfterRotation ==
  \A c \in Callers :
    \A m \in EvPos(c, "sleep") :
      m > 1 =>
        /\ call[c].log[m - 1].t # "rotate"
        /\ ~(call[c].log[m - 1].t = "call"
             /\ call[c].log[m - 1].o \in AuthError \cup RateLimitError)

\* C8: K consecutive attempts on a provider with K keys that all fail with an
\* AuthError each rotate the key, and they use K distinct key indices.
C8_KeysCycle ==
  \A c \in Callers : call[c].pc # "idle" =>
    LET K == keys[call[c].provider]
    IN \A W \in SUBSET PrimaryPos(c) :
         (/\ K >= 1
          /\ Cardinality(W) = K
          /\ \A m \in PrimaryPos(c) : (\E i, j \in W : i <= m /\ m <= j) => m \in W
          /\ \A i \in W : call[c].log[i].o \in AuthError) =>
           /\ \A i, j \in W : i # j => call[c].log[i].k # call[c].log[j].k
           /\ \A i \in W : i < Len(call[c].log) /\ call[c].log[i + 1].t = "rotate"

\* C9: a successful adapter call is the last thing a chat() call does and its
\* result is the result of chat(); with sentient(k1,k2), openai(k3), a 429
\* followed by a success gives a sentient result after 2 sentient calls on
\* different keys, 1 rotation and no openai call.
C9_SuccessReturns ==
  \A c \in Callers :
    /\ \A i \in CallPos(c) :
         call[c].log[i].o = "ok" =>
           /\ i = Len(call[c].log)
           /\ call[c].pc = "done"
           /\ call[c].result = [kind |-> "result", p |-> call[c].log[i].p, k |-> call[c].log[i].k]
    /\ (/\ keys = [sentient |-> 2, openai |-> 1, anthropic |-> 0]
        /\ call[c].provider = "sentient"
        /\ Len(CallSeq(c)) >= 2
        /\ CallSeq(c)[1].o = "s429"
        /\ CallSeq(c)[2].p = "sentient"
        /\ CallSeq(c)[2].o = "ok") =>
         /\ call[c].result.kind = "result" /\ call[c].result.p = "sentient"
         /\ Cardinality(CallPosTo(c, "sentient")) = 2
         /\ CallSeq(c)[1].k # CallSeq(c)[2].k
         /\ call[c].result.k = CallSeq(c)[2].k
         /\ Cardinality(EvPos(c, "rotate")) = 1
         /\ CallPosTo(c, "openai") = {}

C9_Witness ==
  \E c \in Callers :
    /\ keys = [sentient |-> 2, openai |-> 1, anthropic |-> 0]
    /\ call[c].provider = "sentient"
    /\ Len(CallSeq(c)) = 2
    /\ CallSeq(c)[1].o = "s429"
    /\ CallSeq(c)[2].p = "sentient"
    /\ CallSeq(c)[2].o = "ok"
    /\ call[c].pc = "done"

\* C10: the fallback starts only after the attempt loop has ended without
\* success, calls the other configured providers once each in priority order
\* (never the primary, never one without keys), stops at the first success
\* and returns that result; the call fails only after all of them failed.
C10_FallbackChain ==
  \A c \in Callers : call[c].pc # "idle" =>
    LET others == PriorityOthers(call[c].provider)
        fbs == FallbackSeq(c)
        n == Len(fbs)
        loopFailed ==
          /\ \A i \in PrimaryPos(c) : call[c].log[i].o \in Statuses
          /\ Cardinality(PrimaryPos(c)) =
               (IF keys[call[c].provider] > 0 THEN call[c].maxRetries ELSE 0)
    IN /\ n <= Len(others)
       /\ \A j \in 1..n : fbs[j].p = others[j]
       /\ \A j \in 1..(n - 1) : fbs[j].o = "failed"
       /\ n > 0 => loopFailed
       /\ \A i \in FallbackPos(c) : \A m \in PrimaryPos(c) : m < i
       /\ (call[c].pc = "done" /\ loopFailed) =>
            /\ call[c].fb
            /\ IF \E j \in 1..n : fbs[j].o = "ok"
               THEN call[c].result = [kind |-> "result", p |-> fbs[n].p, k |-> fbs[n].k]
               ELSE n = Len(others) /\ call[c].result.kind = "error"

C10_Witness ==
  \E c \in Callers :
    /\ call[c].pc = "done"
    /\ call[c].provider = "sentient"
    /\ keys["sentient"] > 0 /\ keys["openai"] = 0 /\ keys["anthropic"] > 0
    /\ call[c].result.kind = "result"
    /\ call[c].result.p = "anthropic"

\* C11: the limiter never runs more than maxConcurrent adapter calls at once
\* and starts a job only when minTime has passed since it started the last.
C11_LimiterBounds ==
  /\ [](Cardinality(running) <= MaxConcurrent)
  /\ [][(\E c \in Callers : c \in running' /\ c \notin running) =>
          (Cardinality(running) < MaxConcurrent /\ elapsed >= MinTimeMs)]_vars

C11_Witness ==
  /\ Cardinality(running) = MaxConcurrent
  /\ queue # <<>>
  /\ elapsed >= MinTimeMs

\* C12: the current key index of every provider with keys is a valid index
\* of its key list, whatever the interleaving of the rotations of
\* overlapping chat() calls.
C12_IndexInRange ==
  \A p \in Providers : keys[p] > 0 => (0 <= idx[p] /\ idx[p] < keys[p])

C12_Witness ==
  \E p \in Providers :
    /\ keys[p] >= 2
    /\ idx[p] = 0
    /\ \A c \in ConcCallers :
         \E i \in EvPos(c, "rotate") : call[c].log[i].p = p
    /\ \E c \in ConcCallers : call[c].pc = "running"

\* C13: the constructor throws exactly when no provider has a key, and an
\* instance whose construction threw never starts a chat() call nor an
\* adapter call.
C13_ConstructionFails ==
  /\ (defaultProvider = "none") <=> (\A p \in Providers : keys[p] = 0)
  /\ defaultProvider = "none" =>
       /\ \A c \in Callers : call[c].pc = "idle" /\ call[c].log = <<>>
       /\ queue = <<>> /\ running = {}

C13_Witness ==
  /\ \A p \in Providers : keys[p] = 0
  /\ defaultProvider = "none"

\* the first provider of the priority order that has a key
FirstConfigured ==
  Priority[FirstOf({i \in 1..Len(Priority) : keys[Priority[i]] > 0})]

\* C14: a chat() call made without options.provider uses the first provider
\* of the order sentient, openai, anthropic that has at least one key
\* (checked where no caller passes options.provider).
C14_DefaultResolution ==
  env.provs = {"unset"} =>
    \A c \in Callers :
      call[c].pc # "idle" => call[c].provider = FirstConfigured

C14_Witness ==
  /\ env.provs = {"unset"}
  /\ \E c \in Callers :
       /\ call[c].pc = "running"
       /\ keys["sentient"] = 0 /\ keys["openai"] = 0
       /\ call[c].provider = "anthropic"

\* the errors chat() lets escape to its caller
TerminalErrors == {"AllFallbackFailed", "AllProvidersFailed"}

\* C15: a finished chat() call gave its caller a result, ProviderUnavailable
\* or the terminal all-failed error, never the error of an adapter call; the
\* terminal error comes only after every configured provider was called and
\* none of the calls succeeded.
C15_OnlyTerminalErrors ==
  \A c \in Callers : call[c].pc = "done" =>
    \/ /\ call[c].result.kind = "result"
       /\ \E i \in CallPos(c) : call[c].log[i].o = "ok"
    \/ /\ call[c].result.kind = "error"
       /\ call[c].result.p \in TerminalErrors \cup {"ProviderUnavailable"}
       /\ call[c].result.p \notin Statuses
       /\ call[c].result.p \in TerminalErrors =>
            /\ \A p \in Providers : keys[p] > 0 => CallPosTo(c, p) # {}
            /\ \A i \in CallPos(c) : call[c].log[i].o \in Statuses \cup {"failed"}

C15_Witness ==
  \E c \in Callers :
    /\ call[c].pc = "done"
    /\ call[c].result.kind = "error"
    /\ \A p \in Providers : keys[p] > 0 /\ CallPosTo(c, p) # {}
    /\ \E i \in PrimaryPos(c) : call[c].log[i].o = "s401"

\* C16: a chat() call holds a limiter slot only while its adapter call runs:
\* not while it sleeps between attempts, not while it waits in the queue,
\* and not after the adapter call ended, whether it succeeded or failed.
C16_SlotOnlyWhileRunning ==
  \A c \in Callers : c \in running => call[c].pc = "running"

C16_Witness ==
  \E c \in Callers :
    /\ call[c].pc = "sleeping"
    /\ c \notin running
    /\ \E i \in PrimaryPos(c) : call[c].log[i].o \in Statuses

\* C18: an adapter call in flight, of the attempt loop or of the fallback
\* and to whatever provider, holds a slot of the one limiter, so the calls in
\* flight over all providers are at most maxConcurrent.
C18_AllCallsThroughLimiter ==
  /\ \A c \in Callers : call[c].pc = "running" => c \in running
  /\ Cardinality({c \in Callers : call[c].pc = "running"}) <= MaxConcurrent

C18_Witness ==
  \E c, d \in Callers :
    /\ call[c].pc = "running" /\ call[d].pc = "running"
    /\ c \in running /\ d \in running
    /\ ~call[c].fb /\ call[d].fb
    /\ call[c].log[Len(call[c].log)].p # call[d].log[Len(call[d].log)].p

\* C17: an adapter call that hangs is ended by a timeout: its slot is
\* released and the chat() call goes on to finish.
C17_HungCallRecovers ==
  \A c \in SeqCallers :
    [](call[c].pc = "hung" => <>(c \notin running /\ call[c].pc = "done"))

\* C19: the sleep after the failed attempt number a (from 0) lasts
\* min(initialDelay * 2^a, maxDelay), so no sleep is longer than maxDelay.
C19_CappedBackoff ==
  \A c \in Callers :
    \A m \in EvPos(c, "sleep") :
      LET a == Cardinality({n \in EvPos(c, "sleep") : n < m})
      IN call[c].log[m].k = Min(InitialDelayMs * (2 ^ a), MaxDelayMs)

\* C20: a rotate method moves the index of a provider with K >= 2 keys to
\* (index + 1) mod K and leaves the index of a provider with 0 or 1 key alone.
C20_RotateStep ==
  probe.p # "none" =>
    /\ idx[probe.p] = probe.after
    /\ probe.after = (IF keys[probe.p] >= 2
                      THEN (probe.before + 1) % keys[probe.p]
                      ELSE probe.before)

C20_Witness ==
  /\ probe.p # "none"
  /\ keys[probe.p] >= 2
  /\ probe.before = keys[probe.p] - 1
  /\ probe.after = 0
  /\ \E q \in Providers : keys[q] = 0

\* C21: no step of a chat() call, of a rotation or of a fallback changes the
\* key (= client) lists or the default provider, and a step that changes the
\* current key index of one provider leaves the index of every other alone.
C21_OnlyIndexChanges ==
  [][/\ keys' = keys
     /\ defaultProvider' = defaultProvider
     /\ \A p, q \in Providers :
          (p # q /\ idx'[p] # idx[p]) => idx'[q] = idx[q]]_vars

C21_Witness ==
  \E p, q \in Providers :
    /\ p # q
    /\ keys[p] >= 2 /\ keys[q] >= 2
    /\ idx[p] # 0 /\ idx[q] = 0
    /\ \E c \in Callers : call[c].pc = "done" /\ call[c].fb

\* C22: every getAvailableProviders() call returns the mapping provider ->
\* (it has at least one key), the same on every call whatever happened in
\* between, and the call changes nothing of the gateway.
C22_AvailableIsStable ==
  /\ [](\A i \in 1..Len(avail) :
          /\ avail[i].ret = [p \in Providers |-> keys[p] >= 1]
          /\ avail[i].ret = avail[1].ret)
  /\ [][avail' # avail =>
          UNCHANGED <<keys, idx, defaultProvider, queue, running, elapsed, call>>]_vars

C22_Witness ==
  /\ Len(avail) = 2
  /\ avail[2].moved
  /\ \E p \in Providers : keys[p] = 0
  /\ \E c \in Callers : call[c].pc = "done" /\ call[c].fb

\* positions of the non-system messages given to the Anthropic adapter
NonSystemPos == {i \in 1..Len(wire.messages) : wire.messages[i].role # "system"}

\* C23: the request of the Anthropic adapter carries the content of the
\* system message in its system field (empty without a system message) and,
\* in its message array, exactly the non-system messages in their order,
\* with role assistant kept and every other role sent as user.
C23_AnthropicMapping ==
  wire.sent =>
    /\ \A i \in 1..Len(wire.messages) :
         wire.messages[i].role = "system" => wire.system = wire.messages[i].content
    /\ (\A i \in 1..Len(wire.messages) : wire.messages[i].role # "system") =>
         wire.system = ""
    /\ Len(wire.array) = Cardinality(NonSystemPos)
    /\ \A i \in NonSystemPos :
         LET k == Cardinality({j \in NonSystemPos : j <= i})
         IN /\ wire.array[k].content = wire.messages[i].content
            /\ wire.array[k].role =
                 (IF wire.messages[i].role = "assistant" THEN "assistant" ELSE "user")

C23_Witness ==
  /\ wire.sent
  /\ Len(wire.messages) = 3
  /\ wire.messages[1] = [role |-> "system", content |-> "hello"]
  /\ wire.messages[2].role = "assistant"
  /\ wire.messages[3].role = "tool"
  /\ wire.system = "hello"
  /\ Len(wire.array) = 2

\* C24: on a provider with at least two keys, the attempt that follows an
\* attempt failed with 429 or 401 uses another key index than the failed
\* one, also when other chat() calls on that provider overlap.
C24_NextAttemptOtherKey ==
  \A c \in Callers :
    \A i, j \in PrimaryPos(c) :
      (/\ NextAttempt(c, i, j)
       /\ keys[call[c].provider] >= 2
       /\ call[c].log[i].o \in {"s429", "s401"}) =>
        call[c].log[j].k # call[c].log[i].k

\* the latest adapter call of c and of c after the step
LastEv(c) == call[c].log[Len(call[c].log)]
LastEvAfter(c) == call'[c].log[Len(call'[c].log)]

\* C25: an adapter call uses the key that was current when it was submitted
\* to the limiter: the key is taken at submission, a rotation by another
\* call while the job waits or runs does not change it, and a successful
\* job answers with that key.
C25_KeyFixedAtSubmit ==
  [][\A c \in Callers :
       /\ (call[c].pc # "queued" /\ call'[c].pc = "queued") =>
            LastEvAfter(c).k = idx'[LastEvAfter(c).p]
       /\ (call[c].pc = "queued" /\ call'[c].pc \in {"queued", "running"}) =>
            call'[c].log = call[c].log
       /\ (call[c].pc = "running" /\ call'[c].pc = "running") =>
            call'[c].log = call[c].log
       /\ (call[c].pc = "running" /\ call'[c].result.kind = "result") =>
            call'[c].result.k = LastEv(c).k]_vars

C25_Witness ==
  \E c, d \in Callers :
    /\ c # d
    /\ call[c].pc = "running"
    /\ LastEv(c).k # idx[LastEv(c).p]
    /\ \E i \in EvPos(d, "rotate") : call[d].log[i].p = LastEv(c).p

\* C26: a failed adapter call of the fallback changes no current key index,
\* whatever its status; an index changes only when an attempt of the primary
\* loop fails, and then it is the index of the primary provider of that call.
C26_FallbackNeverRotates ==
  [][/\ \A c \in Callers :
          (call[c].pc = "running" /\ call[c].fb /\ call'[c] # call[c]) => idx' = idx
     /\ \A p \in Providers :
          idx'[p] # idx[p] =>
            \E c \in Callers :
              /\ call[c].pc = "running" /\ ~call[c].fb
              /\ call'[c] # call[c]
              /\ call[c].provider = p]_vars

C26_Witness ==
  \E c \in Callers :
    \E i \in FallbackPos(c) :
      /\ call[c].log[i].o = "failed"
      /\ keys[call[c].log[i].p] >= 2
      /\ idx[call[c].log[i].p] = 0
      /\ call[c].pc = "done"

\* how many times message m stands in a list of the handler
TimesProcessed(m) == Cardinality({j \in 1..Len(dm.processed) : dm.processed[j] = m})
TimesFailed(m) == Cardinality({j \in 1..Len(dm.failed) : dm.failed[j].author = m})

C28_WindowBound ==
  rl.maxCalls >= 1 =>
    /\ Len(rl.recent) <= rl.maxCalls
    /\ rl.available >= 0

C28_Witness ==
  /\ rl.maxCalls = 2
  /\ Len(rl.recent) = 2
  /\ rl.available = 0
  /\ \E c \in Throttlers : rl.pc[c] = "sleeping" /\ rl.wait[c] = 0

\* C29: every throttle() call that waits is admitted in the end, also while
\* other callers keep calling throttle().
C29_NoStarvation ==
  \A c \in Throttlers : [](rl.maxCalls >= 1 /\ rl.pc[c] = "sleeping" => <>(rl.pc[c] = "idle"))

\* C30: the k-th wait() (from 0) since construction or the last reset()
\* sleeps min(initialDelay * factor^k, maxDelay) and returns k + 1;
\* getAttempts() is the number of wait() calls since then; reset() leaves
\* the instance as the constructor does.
C30_BackoffSeries ==
  bo.initialDelay > 0 =>
    /\ bo.pc = "sleeping" =>
         bo.slept = Min(bo.initialDelay * (bo.factor ^ (bo.waits - 1)), bo.maxDelay)
    /\ (bo.pc = "idle" /\ bo.last = "wait") => bo.returned = bo.waits
    /\ bo.pc = "idle" => getAttempts(bo) = bo.waits
    /\ bo.last = "reset" =>
         /\ bo.currentDelay = bo.initialDelay /\ bo.attempts = 0
         /\ [f \in {"initialDelay", "maxDelay", "factor", "currentDelay", "attempts"} |-> bo[f]]
              = [f \in {"initialDelay", "maxDelay", "factor", "currentDelay", "attempts"} |->
                   NewBackoff(bo.initialDelay, bo.maxDelay, bo.factor)[f]]

C30_Witness ==
  /\ bo.initialDelay = InitialDelayMs /\ bo.maxDelay = MaxDelayMs
  /\ bo.pc = "sleeping"
  /\ bo.waits = 7
  /\ bo.slept = MaxDelayMs
  /\ bo.currentDelay > MaxDelayMs

====
